---- MODULE Spec2Model ----
(***************************************************************************)
(* The variation job engine of src/app.js: the upload, process, status and *)
(* download handlers, the background task processVideoReal with its        *)
(* FFmpeg invocations, and the hourly cleanup of the two artifact          *)
(* directories.  One action is one turn of the Node event loop: a request  *)
(* handler with everything it calls synchronously, or the continuation of  *)
(* a background task after the awaited FFmpeg invocation settles.          *)
(* calculateSimilarity is a pure function; it is studied in a              *)
(* specification of its own, which draws a config and applies it.          *)
(***************************************************************************)
EXTENDS Integers, Sequences, FiniteSets, TLC

\* ------------------------------------------------------------------ bounds
\* Number of distinct upload ids multer hands out.
MaxUploads == 1
\* Number of process requests that are accepted (caps jobCounter).
MaxJobs == 2
\* Largest variationCount of the large-count specification.
MaxLargeCount == 201
\* Largest cropMargins (in percent) of the configs given to calculateSimilarity.
MaxCropMargins == 1000

\* ------------------------------------------------------- program constants
\* const { videoId, variationCount = 5 } = req.body
DefaultVariationCount == 5
\* const maxAge = 2 * 60 * 60 * 1000
maxAge == 2 * 60 * 60 * 1000
\* setInterval(..., 60 * 60 * 1000)
sweepInterval == 60 * 60 * 1000
\* Ages are kept up to the first value the cleanup no longer tells apart.
AgeCap == maxAge + sweepInterval

\* --------------------------------------------------------------- JS values
\* A JSON value as the handlers see it.  A number is the rational num/den;
\* den = 0 stands for NaN.  A string is its sequence of characters.
JSNull == [type |-> "null"]
JSNumber(n, d) == [type |-> "number", num |-> n, den |-> d]
JSNaN == JSNumber(0, 0)
JSString(cs) == [type |-> "string", chars |-> cs]
JSArray(items) == [type |-> "array", items |-> items]
JSUndefined == [type |-> "undefined"]

Digits == <<"0", "1", "2", "3", "4", "5", "6", "7", "8", "9">>
IsDigit(c) == \E k \in 1..10 : Digits[k] = c
DigitValue(c) == (CHOOSE k \in 1..10 : Digits[k] = c) - 1
IsSpace(c) == c = " "

\* The value of the longest prefix of decimal digits of cs, starting from acc.
RECURSIVE DigitsPrefixValue(_, _)
DigitsPrefixValue(cs, acc) ==
  IF cs = <<>> \/ ~IsDigit(Head(cs)) THEN acc
  ELSE DigitsPrefixValue(Tail(cs), acc * 10 + DigitValue(Head(cs)))

RECURSIVE SkipSpaces(_)
SkipSpaces(cs) ==
  IF cs # <<>> /\ IsSpace(Head(cs)) THEN SkipSpaces(Tail(cs)) ELSE cs

\* parseInt(string): leading blanks, an optional sign, then the longest run
\* of digits; NaN when there is no digit.
parseInt(cs) ==
  LET s == SkipSpaces(cs)
      neg == s # <<>> /\ Head(s) = "-"
      signed == s # <<>> /\ Head(s) \in {"-", "+"}
      body == IF signed THEN Tail(s) ELSE s
  IN IF body = <<>> \/ ~IsDigit(Head(body)) THEN JSNaN
     ELSE LET v == DigitsPrefixValue(body, 0)
          IN JSNumber(IF neg THEN 0 - v ELSE v, 1)

AllDigits(cs) == \A k \in 1..Len(cs) : IsDigit(cs[k])

\* ToNumber, as the comparison i < variationCount and the division
\* (i + 1) / variationCount apply it to their operand.
ToNumber(v) ==
  CASE v.type = "number" -> v
    [] v.type = "null" -> JSNumber(0, 1)
    [] v.type = "string" ->
         IF v.chars = <<>> THEN JSNumber(0, 1)
         ELSE IF AllDigits(v.chars) THEN JSNumber(DigitsPrefixValue(v.chars, 0), 1)
         ELSE JSNaN
    [] OTHER -> JSNaN

\* Variant: the loop stops one variation early (i < variationCount - 1).
LoopConditionShort(i, variationCount) ==
  LET n == ToNumber(variationCount)
  IN n.den # 0 /\ (i + 1) * n.den < n.num

\* i < variationCount  (app.js:350)
LoopCondition(i, variationCount) ==
  LET n == ToNumber(variationCount)
  IN n.den # 0 /\ i * n.den < n.num

\* Variant: the share of variations still to do instead of the share done.
ProgressRemaining(i, variationCount) ==
  LET n == ToNumber(variationCount)
  IN ((n.num - (i + 1) * n.den) * 200 + n.num) \div (2 * n.num)

\* Math.round(((i + 1) / variationCount) * 100)  (app.js:375); Math.round
\* rounds halves up.  Only evaluated inside the loop, where variationCount > 0.
\* The quotient is taken exactly.  Double arithmetic gives the same integer
\* for every count the specifications below draw (it differs for counts
\* such as 200, where 29 / 200 * 100 falls just below 14.5).
Progress(i, variationCount) ==
  LET n == ToNumber(variationCount)
  IN ((i + 1) * n.den * 200 + n.num) \div (2 * n.num)

\* ------------------------------------------------------------------- state
VARIABLES
  uploadedFiles,  \* keys of the uploadedFiles map (the registered video ids)
  uploadsDir,     \* files of uploads/: video id -> age of the file
  processedDir,   \* files of processed/: <<videoId, n>> -> [age, state, by]
  jobs,           \* the jobs map: jobId -> job record
  jobCounter,     \* let jobCounter
  task,           \* per job: where processVideoReal stands, its i and results
  res             \* the response the last step sent to an upload or process
                  \* request (none for a background step); a status or download
                  \* request changes nothing, and its response is StatusResponse
                  \* or DownloadResponse of the state it runs in
VARIABLE
  call            \* the call of a pure function under study: its argument and
                  \* what it returned; NoCall while the server runs

vars == <<uploadedFiles, uploadsDir, processedDir, jobs, jobCounter, task, res, call>>

VideoIds == 1..MaxUploads
\* An id no upload ever returned.
UnknownVideoId == MaxUploads + 1

NoResponse == [route |-> "none"]
NoCall == [fn |-> "none"]

Init ==
  /\ uploadedFiles = {}
  /\ uploadsDir = <<>>
  /\ processedDir = <<>>
  /\ jobs = <<>>
  /\ jobCounter = 0
  /\ task = <<>>
  /\ res = NoResponse
  /\ call = NoCall

\* Restriction of a function to the keys in S.
Restrict(f, S) == [k \in S |-> f[k]]

\* ----------------------------------------------------------------- upload
\* POST /api/video/upload.  kind is what the request carries, probeOk the
\* outcome of ffprobe on the stored file.
Upload(v, kind, probeOk) ==
  /\ v \notin uploadedFiles
  /\ v \notin DOMAIN uploadsDir
  /\ UNCHANGED <<processedDir, jobs, jobCounter, task, call>>
  /\ CASE kind = "none" ->
            \* no file part: multer stores nothing, !req.file
            /\ res' = [route |-> "upload", status |-> 400]
            /\ UNCHANGED <<uploadedFiles, uploadsDir>>
       [] kind = "other" ->
            \* fileFilter rejects: the error middleware answers
            /\ res' = [route |-> "upload", status |-> 500]
            /\ UNCHANGED <<uploadedFiles, uploadsDir>>
       [] kind = "video" /\ ~probeOk ->
            \* the file is stored, getVideoInfo rejects
            /\ uploadsDir' = (v :> 0) @@ uploadsDir
            /\ res' = [route |-> "upload", status |-> 500]
            /\ UNCHANGED uploadedFiles
       [] kind = "video" /\ probeOk ->
            /\ uploadsDir' = (v :> 0) @@ uploadsDir
            /\ uploadedFiles' = uploadedFiles \cup {v}
            /\ res' = [route |-> "upload", status |-> 200, videoId |-> v]

\* ----------------------------------------------------- the background task
\* Variant: the record is created with an empty error.
NewJobWithError(videoId, variationCount) ==
  [status |-> "active", progress |-> 0, data |-> JSNull,
   videoId |-> videoId, variationCount |-> variationCount, error |-> ""]

NewJob(videoId, variationCount) ==
  [status |-> "active", progress |-> 0, data |-> JSNull,
   videoId |-> videoId, variationCount |-> variationCount]

\* Variant: a failure that also resets the progress.
FailedResetsProgress(job, message) ==
  [error |-> message] @@ [job EXCEPT !.status = "failed", !.progress = 0]

\* The catch block, and the early return for a missing source: job.status =
\* 'failed'; job.error = message.
Failed(job, message) ==
  [error |-> message] @@ [job EXCEPT !.status = "failed"]

\* Variant: the status is set in one turn and the data in a later one.
CompletedBeforeData(job, results) ==
  [job EXCEPT !.status = "completed"]

\* job.status = 'completed'; job.data = results
Completed(job, results) ==
  [job EXCEPT !.status = "completed", !.data = JSArray(results)]

\* The task after its last statement, with the values its locals held.
Returned(i, results) == [pc |-> "returned", i |-> i, results |-> results]

\* Variant: the loop starts the invocation after the next one.
LoopHeadSkips(job, i, results) ==
  IF LoopCondition(i, job.variationCount)
  THEN <<job, [pc |-> "spawned", i |-> i + 1, results |-> results]>>
  ELSE <<Completed(job, results), Returned(i, results)>>

\* The head of the for loop at index i: either the next FFmpeg invocation is
\* started and the task awaits it, or the loop is over and the job completes.
\* Yields <<job record, task state>>.
LoopHead(job, i, results) ==
  IF LoopCondition(i, job.variationCount)
  THEN <<job, [pc |-> "spawned", i |-> i, results |-> results]>>
  ELSE <<Completed(job, results), Returned(i, results)>>

\* Variant: the task does not look for the source before the loop.
StartTaskUnchecked(job, dir) == LoopHead(job, 0, <<>>)

\* processVideoReal up to its first await.
StartTask(job, dir) ==
  IF job.videoId \notin DOMAIN dir
  THEN <<Failed(job, "Video file not found"), Returned(0, <<>>)>>
  ELSE LoopHead(job, 0, <<>>)

\* results.push({ id: `${videoId}_variation_${i + 1}`, ... })
Result(videoId, i) == [id |-> <<videoId, i + 1>>, name |-> i + 1]

\* ---------------------------------------------------------------- process
\* POST /api/video/process with the JSON body `body`.
variationCountOf(body) ==
  IF "variationCount" \in DOMAIN body THEN body.variationCount
  ELSE JSNumber(DefaultVariationCount, 1)

\* Variant: the id is only required to be present.
VideoGiven(body) == "videoId" \in DOMAIN body

\* !videoId || !uploadedFiles.has(videoId), negated
VideoFound(body) ==
  /\ "videoId" \in DOMAIN body
  /\ body.videoId \in uploadedFiles

\* Variant: the counter is read but never advanced past 1.
NextJobIdReused(counter) == IF counter = 0 THEN 1 ELSE counter

\* const jobId = ++jobCounter
NextJobId(counter) == counter + 1

\* Variant: the counter is advanced before the request is validated.
ProcessCountsRejected(body) ==
  IF ~VideoFound(body)
  THEN /\ res' = [route |-> "process", status |-> 400, error |-> "Video not found"]
       /\ jobCounter' = NextJobId(jobCounter)
       /\ UNCHANGED <<uploadedFiles, uploadsDir, processedDir, jobs, task, call>>
  ELSE LET jobId == NextJobId(jobCounter)
           started == StartTask(NewJob(body.videoId, variationCountOf(body)), uploadsDir)
       IN /\ jobCounter' = jobId
          /\ jobs' = (jobId :> started[1]) @@ jobs
          /\ task' = (jobId :> started[2]) @@ task
          /\ res' = [route |-> "process", status |-> 200, jobId |-> jobId]
          /\ UNCHANGED <<uploadedFiles, uploadsDir, processedDir, call>>

Process(body) ==
  IF ~VideoFound(body)
  THEN /\ res' = [route |-> "process", status |-> 400, error |-> "Video not found"]
       /\ UNCHANGED <<uploadedFiles, uploadsDir, processedDir, jobs, jobCounter, task, call>>
  ELSE LET jobId == NextJobId(jobCounter)
           started == StartTask(NewJob(body.videoId, variationCountOf(body)), uploadsDir)
       IN /\ jobCounter' = jobId
          /\ jobs' = (jobId :> started[1]) @@ jobs
          /\ task' = (jobId :> started[2]) @@ task
          /\ res' = [route |-> "process", status |-> 200, jobId |-> jobId]
          /\ UNCHANGED <<uploadedFiles, uploadsDir, processedDir, call>>

\* ------------------------------------------------------------------ FFmpeg
OutputPath(j) == <<jobs[j].videoId, task[j].i + 1>>

\* The spawned FFmpeg opens its input and creates the output file.
FfmpegOpen(j) ==
  /\ task[j].pc = "spawned"
  /\ jobs[j].videoId \in DOMAIN uploadsDir
  /\ task' = [task EXCEPT ![j].pc = "encoding"]
  /\ processedDir' =
       (OutputPath(j) :> [age |-> 0, state |-> "partial", by |-> j]) @@ processedDir
  /\ res' = NoResponse
  /\ UNCHANGED <<uploadedFiles, uploadsDir, jobs, jobCounter, call>>

\* Variant: the loop runs the same variation again after it ended.
FfmpegEndRetries(j) ==
  /\ task[j].pc = "encoding"
  /\ processedDir' =
       (OutputPath(j) :> [age |-> 0, state |-> "complete", by |-> j]) @@ processedDir
  /\ task' = [task EXCEPT ![j].pc = "spawned"]
  /\ res' = NoResponse
  /\ UNCHANGED <<uploadedFiles, uploadsDir, jobs, jobCounter, call>>

\* on('end'): the promise resolves and the loop body continues to the next
\* await or to the end of the loop.
FfmpegEnd(j) ==
  /\ task[j].pc = "encoding"
  /\ LET i == task[j].i
         path == OutputPath(j)
         written == (path :> [age |-> 0, state |-> "complete", by |-> j]) @@ processedDir
         results == Append(task[j].results, Result(jobs[j].videoId, i))
         job == [jobs[j] EXCEPT !.progress = Progress(i, jobs[j].variationCount)]
         next == LoopHead(job, i + 1, results)
     IN /\ processedDir' = written
        /\ jobs' = [jobs EXCEPT ![j] = next[1]]
        /\ task' = [task EXCEPT ![j] = next[2]]
  /\ res' = NoResponse
  /\ UNCHANGED <<uploadedFiles, uploadsDir, jobCounter, call>>

\* Variant: an error event that is also handled after the task returned.
FfmpegErrorAnyTime(j) ==
  /\ jobs' = [jobs EXCEPT ![j] = Failed(jobs[j], "ffmpeg error")]
  /\ task' = [task EXCEPT ![j] = Returned(task[j].i, task[j].results)]
  /\ res' = NoResponse
  /\ UNCHANGED <<uploadedFiles, uploadsDir, processedDir, jobCounter, call>>

\* on('error'): the promise rejects and the catch block runs.
FfmpegError(j) ==
  /\ task[j].pc \in {"spawned", "encoding"}
  /\ jobs' = [jobs EXCEPT ![j] = Failed(jobs[j], "ffmpeg error")]
  /\ task' = [task EXCEPT ![j] = Returned(task[j].i, task[j].results)]
  /\ res' = NoResponse
  /\ UNCHANGED <<uploadedFiles, uploadsDir, processedDir, jobCounter, call>>

\* Something outside the server removes a file of processed/.
Unlinked(path) ==
  /\ path \in DOMAIN processedDir
  /\ processedDir' = Restrict(processedDir, DOMAIN processedDir \ {path})
  /\ res' = NoResponse
  /\ UNCHANGED <<uploadedFiles, uploadsDir, jobs, jobCounter, task, call>>

\* Variant: no catch block around the loop, the exception leaves the task.
StatThrowsUncaught(j) ==
  /\ task[j].pc = "encoding"
  /\ OutputPath(j) \notin DOMAIN processedDir
  /\ task' = [task EXCEPT ![j].pc = "rejected"]
  /\ res' = NoResponse
  /\ UNCHANGED <<uploadedFiles, uploadsDir, processedDir, jobs, jobCounter, call>>

\* on('end') when the output file is not there: the promise resolves,
\* fs.statSync(outputPath) throws and the catch block runs.
StatThrows(j) ==
  /\ task[j].pc = "encoding"
  /\ OutputPath(j) \notin DOMAIN processedDir
  /\ jobs' = [jobs EXCEPT ![j] = Failed(jobs[j], "ENOENT")]
  /\ task' = [task EXCEPT ![j] = Returned(task[j].i, task[j].results)]
  /\ res' = NoResponse
  /\ UNCHANGED <<uploadedFiles, uploadsDir, processedDir, jobCounter, call>>

\* ------------------------------------------------------------------ status
\* jobs.get(jobId) for the number parseInt returned.
JobsGet(n) ==
  IF n.den = 1 /\ n.num \in DOMAIN jobs THEN jobs[n.num] ELSE JSUndefined

\* Variant: an unknown job answered as an error.
StatusResponseNotFoundError(param) ==
  LET jobId == parseInt(param)
      job == JobsGet(jobId)
  IN IF job = JSUndefined
     THEN [route |-> "status", status |-> 404, body |-> [error |-> "Job not found"]]
     ELSE [route |-> "status", status |-> 200, body |-> job]

\* GET /api/video/status/:jobId: what the handler answers in the current
\* state.  res.json sends status 200.
StatusResponse(param) ==
  LET jobId == parseInt(param)
      job == JobsGet(jobId)
  IN IF job = JSUndefined
     THEN [route |-> "status", status |-> 200, body |-> [status |-> "not_found"]]
     ELSE [route |-> "status", status |-> 200, body |-> job]

\* The handler reads jobs and writes nothing.
Status(param) ==
  /\ StatusResponse(param).status = 200
  /\ UNCHANGED vars

\* ---------------------------------------------------------------- download
\* GET /api/video/download/:videoId for the id `${v}_variation_${n}`: what
\* the handler answers in the current state, with the bytes it streams.
DownloadResponse(path) ==
  IF path \in DOMAIN processedDir
  THEN [route |-> "download", status |-> 200,
        bytes |-> [state |-> processedDir[path].state, by |-> processedDir[path].by]]
  ELSE [route |-> "download", status |-> 404]

\* The handler reads the processed directory and writes nothing.
Download(path) ==
  /\ DownloadResponse(path).status \in {200, 404}
  /\ UNCHANGED vars

\* ----------------------------------------------------------------- cleanup
\* An FFmpeg that is writing a file keeps its modification time current.
BeingWritten(path) ==
  \E j \in DOMAIN task : task[j].pc = "encoding" /\ OutputPath(j) = path

Older(age, d) == IF age + d > AgeCap THEN AgeCap ELSE age + d

\* The time d passes.
Tick(d) ==
  /\ \/ \E v \in DOMAIN uploadsDir : uploadsDir[v] < AgeCap
     \/ \E p \in DOMAIN processedDir : processedDir[p].age < AgeCap /\ ~BeingWritten(p)
  /\ uploadsDir' = [v \in DOMAIN uploadsDir |-> Older(uploadsDir[v], d)]
  /\ processedDir' =
       [p \in DOMAIN processedDir |->
          IF BeingWritten(p) THEN processedDir[p]
          ELSE [processedDir[p] EXCEPT !.age = Older(@, d)]]
  /\ res' = NoResponse
  /\ UNCHANGED <<uploadedFiles, jobs, jobCounter, task, call>>

\* Variant: a file is also removed at exactly maxAge.
ExpiredInclusive(age) == age >= maxAge

\* now - stats.mtime.getTime() > maxAge
Expired(age) == age > maxAge

\* Variant: the cleanup also fails the active jobs whose source it removed.
SweepFailsJobs ==
  /\ uploadsDir' =
       Restrict(uploadsDir, {v \in DOMAIN uploadsDir : ~Expired(uploadsDir[v])})
  /\ processedDir' =
       Restrict(processedDir, {p \in DOMAIN processedDir : ~Expired(processedDir[p].age)})
  /\ jobs' =
       [j \in DOMAIN jobs |->
          IF jobs[j].status = "active" /\ jobs[j].videoId \notin DOMAIN uploadsDir'
          THEN Failed(jobs[j], "Video file not found") ELSE jobs[j]]
  /\ res' = NoResponse
  /\ UNCHANGED <<uploadedFiles, jobCounter, task, call>>

\* The setInterval callback: unlink every expired file of both directories.
Sweep ==
  /\ uploadsDir' =
       Restrict(uploadsDir, {v \in DOMAIN uploadsDir : ~Expired(uploadsDir[v])})
  /\ processedDir' =
       Restrict(processedDir, {p \in DOMAIN processedDir : ~Expired(processedDir[p].age)})
  /\ res' = NoResponse
  /\ UNCHANGED <<uploadedFiles, jobs, jobCounter, task, call>>

\* ------------------------------------------------------------------ inputs
\* The variationCount values a request body carries.
VariationCounts == { JSNumber(0, 1), JSNumber(2, 1) }

\* The amounts of time that pass in one step: here more than maxAge at once.
TickSteps == {AgeCap}

\* The request bodies: videoId missing, unknown or registered, with one of
\* the given variationCount parts (<<>> is the body without the field).
Bodies(countParts) ==
  LET videoPart == {<<>>} \cup {[videoId |-> v] : v \in VideoIds \cup {UnknownVideoId}}
  IN {vp @@ cp : vp \in videoPart, cp \in countParts}

CountParts(counts) == {[variationCount |-> c] : c \in counts}

StatusParams ==
  {<<Digits[n + 1]>> : n \in 1..(MaxJobs + 1)}
    \cup {<<"x">>, <<"1", "x">>, <<"-", "1">>, <<" ", "2">>, <<"1", ".", "5">>}

DownloadPaths ==
  (VideoIds \cup {UnknownVideoId}) \X {1, 2}

Next ==
  \/ \E v \in VideoIds, kind \in {"none", "other", "video"}, probeOk \in BOOLEAN :
       Upload(v, kind, probeOk)
  \/ \E body \in Bodies(CountParts(VariationCounts)) :
       jobCounter < MaxJobs /\ Process(body)
  \/ \E j \in DOMAIN jobs : FfmpegOpen(j)
  \/ \E j \in DOMAIN jobs : FfmpegEnd(j)
  \/ \E j \in DOMAIN jobs : FfmpegError(j)
  \/ \E param \in StatusParams : Status(param)
  \/ \E path \in DownloadPaths : Download(path)
  \/ \E d \in TickSteps : Tick(d)
  \/ Sweep

Spec == Init /\ [][Next]_vars

\* One job at a time, over the remaining shapes of variationCount: absent
\* (the default), negative, fractional, null, strings, and a large count.
SingleCounts ==
  { JSNumber(0 - 1, 1), JSNumber(1, 1), JSNumber(5, 2), JSNull, JSString(<<"2">>),
    JSString(<<"a", "b", "c">>), JSNumber(MaxLargeCount, 1) }

NextSingle ==
  \/ \E v \in VideoIds : Upload(v, "video", TRUE)
  \/ \E body \in Bodies({<<>>} \cup CountParts(SingleCounts)) :
       jobCounter < 1 /\ Process(body)
  \/ \E j \in DOMAIN jobs : FfmpegOpen(j)
  \/ \E j \in DOMAIN jobs : FfmpegEnd(j)
  \/ \E j \in DOMAIN jobs : FfmpegError(j)
  \/ \E param \in StatusParams : Status(param)

SpecSingle == Init /\ [][NextSingle]_vars

\* Time in steps of the cleanup interval and one millisecond more, so that
\* files reach exactly maxAge and just beyond it; one job.
RetentionTicks == {sweepInterval, sweepInterval + 1}

NextRetention ==
  \/ \E v \in VideoIds, probeOk \in BOOLEAN : Upload(v, "video", probeOk)
  \/ \E body \in Bodies(CountParts({JSNumber(2, 1)})) :
       jobCounter < 1 /\ VideoFound(body) /\ Process(body)
  \/ \E j \in DOMAIN jobs : FfmpegOpen(j)
  \/ \E j \in DOMAIN jobs : FfmpegEnd(j)
  \/ \E j \in DOMAIN jobs : FfmpegError(j)
  \/ \E d \in RetentionTicks : Tick(d)
  \/ Sweep

SpecRetention == Init /\ [][NextRetention]_vars

\* A step of the pipeline invocation job j awaits: FFmpeg opens its files,
\* ends or errors.
Invocation(j) ==
  /\ j \in DOMAIN jobs
  /\ (FfmpegOpen(j) \/ FfmpegEnd(j) \/ FfmpegError(j))

\* The steps that bear on how a job ends: uploads, process requests, the
\* invocations, and the cleanup that can take a job's source away.
NextFair ==
  \/ \E v \in VideoIds : Upload(v, "video", TRUE)
  \/ \E body \in Bodies(CountParts(VariationCounts)) :
       jobCounter < MaxJobs /\ VideoFound(body) /\ Process(body)
  \/ \E j \in DOMAIN jobs : FfmpegOpen(j)
  \/ \E j \in DOMAIN jobs : FfmpegEnd(j)
  \/ \E j \in DOMAIN jobs : FfmpegError(j)
  \/ \E d \in TickSteps : Tick(d)
  \/ Sweep

\* Every FFmpeg process that was started goes on until it ends or errors.
SpecFair ==
  Init /\ [][NextFair]_vars /\ \A j \in 1..MaxJobs : WF_vars(Invocation(j))

\* The server with a file system that other programs write to as well: a
\* file of processed/ can be gone when the task looks at it.
NextFaults ==
  \/ \E v \in VideoIds : Upload(v, "video", TRUE)
  \/ \E body \in Bodies(CountParts({JSNumber(2, 1)})) :
       jobCounter < MaxJobs /\ Process(body)
  \/ \E j \in DOMAIN jobs : FfmpegOpen(j)
  \/ \E j \in DOMAIN jobs : OutputPath(j) \in DOMAIN processedDir /\ FfmpegEnd(j)
  \/ \E j \in DOMAIN jobs : StatThrows(j)
  \/ \E j \in DOMAIN jobs : FfmpegError(j)
  \/ \E path \in DownloadPaths : Unlinked(path)
  \/ \E d \in TickSteps : Tick(d)
  \/ Sweep

SpecFaults == Init /\ [][NextFaults]_vars

\* ----------------------------------------------------- calculateSimilarity
\* A config is a record with some of the fields speed, brightness, contrast,
\* saturation, scale, cropMargins, volume (numbers) and flipHorizontal,
\* addNoise (flags).  Reading a field the record does not have gives
\* undefined, and arithmetic on undefined gives NaN, which compares false.
Abs(x) == IF x < 0 THEN 0 - x ELSE x
Min(a, b) == IF a < b THEN a ELSE b
Max(a, b) == IF a > b THEN a ELSE b

\* Math.abs(config[f] - centre) > bound, for centre and bound in thousandths.
Off(config, f, centre, bound) ==
  /\ f \in DOMAIN config
  /\ config[f].den > 0
  /\ Abs(config[f].num * 1000 - centre * config[f].den) > bound * config[f].den

\* A flag that is present and true.
Flag(config, f) == f \in DOMAIN config /\ config[f]

\* config.scale && ...: present, not NaN and not 0.
Truthy(config, f) ==
  f \in DOMAIN config /\ config[f].den > 0 /\ config[f].num # 0

\* config.cropMargins > 1
CropApplies(config) ==
  /\ "cropMargins" \in DOMAIN config
  /\ config.cropMargins.den > 0
  /\ config.cropMargins.num > config.cropMargins.den

\* Math.round of a number that is not NaN: the nearest integer, halves up.
Round(n) == (2 * n.num + n.den) \div (2 * n.den)

\* Variant: only the upper end of the range is enforced.
ClampUpper(similarity) == Min(70, similarity)

\* Math.max(50, Math.min(70, Math.round(similarity))); similarity is an
\* integer here, 100 less integer penalties.
Clamp(similarity) == Max(50, Min(70, similarity))

\* Variant: the noise flag costs nothing.
calculateSimilarityNoiseFree(config) ==
  LET similarity ==
        100
          - (IF Off(config, "speed", 1000, 20) THEN 5 ELSE 0)
          - (IF Off(config, "brightness", 0, 20) THEN 4 ELSE 0)
          - (IF Off(config, "contrast", 1000, 20) THEN 4 ELSE 0)
          - (IF Off(config, "saturation", 1000, 50) THEN 3 ELSE 0)
          - (IF Flag(config, "flipHorizontal") THEN 8 ELSE 0)
          - (IF Truthy(config, "scale") /\ Off(config, "scale", 1000, 10) THEN 3 ELSE 0)
          - (IF CropApplies(config) THEN Round(config.cropMargins) ELSE 0)
          - (IF Off(config, "volume", 1000, 50) THEN 2 ELSE 0)
  IN Clamp(similarity)

calculateSimilarity(config) ==
  LET similarity ==
        100
          - (IF Off(config, "speed", 1000, 20) THEN 5 ELSE 0)
          - (IF Off(config, "brightness", 0, 20) THEN 4 ELSE 0)
          - (IF Off(config, "contrast", 1000, 20) THEN 4 ELSE 0)
          - (IF Off(config, "saturation", 1000, 50) THEN 3 ELSE 0)
          - (IF Flag(config, "flipHorizontal") THEN 8 ELSE 0)
          - (IF Flag(config, "addNoise") THEN 3 ELSE 0)
          - (IF Truthy(config, "scale") /\ Off(config, "scale", 1000, 10) THEN 3 ELSE 0)
          - (IF CropApplies(config) THEN Round(config.cropMargins) ELSE 0)
          - (IF Off(config, "volume", 1000, 50) THEN 2 ELSE 0)
  IN Clamp(similarity)

\* A field that is absent or has one of the given values.
Optional(f, values) == {<<>>} \cup {(f :> v) : v \in values}

\* The configs calculateSimilarity is applied to: every field absent, at the
\* centre of its range or beyond an extreme of the widest family range after
\* the jitter; speed also 3% off; contrast also NaN; cropMargins up to
\* MaxCropMargins.  No value
\* lies on a threshold, where doubles and exact arithmetic could differ.
Configs ==
  {speed @@ brightness @@ contrast @@ saturation @@ flip @@ noise @@ scale
     @@ crop @@ volume :
     speed \in Optional("speed", {JSNumber(940, 1000), JSNumber(1000, 1000),
                                  JSNumber(1030, 1000)}),
     brightness \in Optional("brightness", {JSNumber(0, 1000), JSNumber(60, 1000)}),
     contrast \in Optional("contrast", {JSNaN, JSNumber(1071, 1000)}),
     saturation \in Optional("saturation", {JSNumber(1000, 1000), JSNumber(1100, 1000)}),
     flip \in Optional("flipHorizontal", {FALSE, TRUE}),
     noise \in Optional("addNoise", {TRUE}),
     scale \in Optional("scale", {JSNumber(1000, 1000), JSNumber(1020, 1000)}),
     crop \in Optional("cropMargins",
                       {JSNumber(0, 1000), JSNumber(1000, 1000), JSNumber(1500, 1000),
                        JSNumber(2000, 1000), JSNumber(MaxCropMargins, 1)}),
     volume \in Optional("volume", {JSNumber(1000, 1000), JSNumber(900, 1000)})}

\* calculateSimilarity is about to be called with some config.
InitSimilarity ==
  /\ uploadedFiles = {}
  /\ uploadsDir = <<>>
  /\ processedDir = <<>>
  /\ jobs = <<>>
  /\ jobCounter = 0
  /\ task = <<>>
  /\ res = NoResponse
  /\ call \in {[fn |-> "calculateSimilarity", arg |-> config] : config \in Configs}

\* The call returns.
Similarity ==
  /\ call.fn = "calculateSimilarity"
  /\ "ret" \notin DOMAIN call
  /\ call' = [ret |-> calculateSimilarity(call.arg)] @@ call
  /\ UNCHANGED <<uploadedFiles, uploadsDir, processedDir, jobs, jobCounter, task, res>>

SpecSimilarity == InitSimilarity /\ [][Similarity]_vars

\* -------------------------------------------------- generateProcessingConfig
\* Numbers are kept as exact fractions in lowest terms.
RECURSIVE GCD(_, _)
GCD(a, b) == IF b = 0 THEN a ELSE GCD(b, a % b)

\* The fraction n / d (d > 0) in lowest terms.
Fraction(n, d) ==
  LET g == GCD(Abs(n), d)
  IN JSNumber(n \div g, d \div g)

Plus(a, b) == Fraction(a.num * b.den + b.num * a.den, a.den * b.den)
Minus(a, b) == Fraction(a.num * b.den - b.num * a.den, a.den * b.den)
Times(a, b) == Fraction(a.num * b.num, a.den * b.den)
Greater(a, b) == a.num * b.den > b.num * a.den

\* The decimal literal of n hundredths, as 0.95 is of 95.
Hundredths(n) == Fraction(n, 100)

\* Math.random() returns one of the values k / RandomDenominator: 0.45 or
\* 0.95, and also 0.05 where it decides the speed or the crop margins.  With
\* these values no expression below lies on a threshold, and double
\* arithmetic decides every comparison as exact arithmetic does.
RandomDenominator == 20
RandomDraws(f) ==
  IF f \in {"speed", "jitterSpeed", "cropMargins"} THEN {1, 9, 19} ELSE {9, 19}
Randoms(f) == {JSNumber(k, RandomDenominator) : k \in RandomDraws(f)}

\* lo + Math.random() * span, for lo and span in hundredths.
Uniform(lo, r, span) == Plus(Hundredths(lo), Times(r, Hundredths(span)))

\* The three configurations of the array literal.  `random` holds the value
\* of the Math.random() call in the initialiser of each field.
SpeedBrightness(random) ==
  [speed |-> Uniform(95, random.speed, 10),
   brightness |-> Uniform(0 - 5, random.brightness, 10),
   contrast |-> Uniform(95, random.contrast, 10),
   saturation |-> Uniform(90, random.saturation, 20),
   volume |-> Uniform(90, random.volume, 20),
   flipHorizontal |-> Greater(random.flipHorizontal, Hundredths(70))]

\* Variant: the gamma key exists only for a draw above one half.
ColorAudioGammaOptional(random) ==
  IF Greater(random.gamma, Hundredths(50))
  THEN [speed |-> Uniform(98, random.speed, 4),
        brightness |-> Uniform(0 - 2, random.brightness, 4),
        contrast |-> Uniform(98, random.contrast, 4),
        saturation |-> Uniform(95, random.saturation, 10),
        gamma |-> Uniform(95, random.gamma, 10),
        volume |-> Uniform(95, random.volume, 10),
        addNoise |-> Greater(random.addNoise, Hundredths(60))]
  ELSE [speed |-> Uniform(98, random.speed, 4),
        brightness |-> Uniform(0 - 2, random.brightness, 4),
        contrast |-> Uniform(98, random.contrast, 4),
        saturation |-> Uniform(95, random.saturation, 10),
        volume |-> Uniform(95, random.volume, 10),
        addNoise |-> Greater(random.addNoise, Hundredths(60))]

ColorAudio(random) ==
  [speed |-> Uniform(98, random.speed, 4),
   brightness |-> Uniform(0 - 2, random.brightness, 4),
   contrast |-> Uniform(98, random.contrast, 4),
   saturation |-> Uniform(95, random.saturation, 10),
   gamma |-> Uniform(95, random.gamma, 10),
   volume |-> Uniform(95, random.volume, 10),
   addNoise |-> Greater(random.addNoise, Hundredths(60))]

\* Variant: the crop margins range up to 20% instead of 2%.
GeometricWideCrop(random) ==
  [speed |-> Uniform(96, random.speed, 8),
   brightness |-> Uniform(0 - 3, random.brightness, 6),
   scale |-> Uniform(98, random.scale, 4),
   cropMargins |-> Times(random.cropMargins, Hundredths(2000)),
   flipHorizontal |-> Greater(random.flipHorizontal, Hundredths(50)),
   volume |-> Uniform(92, random.volume, 16)]

Geometric(random) ==
  [speed |-> Uniform(96, random.speed, 8),
   brightness |-> Uniform(0 - 3, random.brightness, 6),
   scale |-> Uniform(98, random.scale, 4),
   cropMargins |-> Times(random.cropMargins, Hundredths(200)),
   flipHorizontal |-> Greater(random.flipHorizontal, Hundredths(50)),
   volume |-> Uniform(92, random.volume, 16)]

\* configs.length
FamilyCount == 3

\* configs[variationIndex % configs.length]
BaseConfig(variationIndex, random) ==
  LET family == variationIndex % FamilyCount
  IN IF family = 0 THEN SpeedBrightness(random)
     ELSE IF family = 1 THEN ColorAudio(random)
     ELSE Geometric(random)

\* The returned object: the fields of the base configuration, with speed,
\* brightness and contrast replaced by their jittered values; undefined times
\* a number is NaN.  random.jitterSpeed, jitterBrightness and jitterContrast
\* hold the values of the Math.random() calls of the return statement.
generateProcessingConfig(variationIndex, random) ==
  LET baseConfig == BaseConfig(variationIndex, random)
  IN [speed |->
        Times(baseConfig.speed, Uniform(99, random.jitterSpeed, 2)),
      brightness |->
        Plus(baseConfig.brightness,
             Times(Minus(random.jitterBrightness, Hundredths(50)), Hundredths(2))),
      contrast |->
        IF "contrast" \in DOMAIN baseConfig
        THEN Times(baseConfig.contrast, Uniform(99, random.jitterContrast, 2))
        ELSE JSNaN]
       @@ baseConfig

\* --------------------------------------------------- processVideoWithFFmpeg
\* 1 / config.speed
Inverse(n) == Fraction(n.den, n.num)

\* config.speed && Math.abs(config.speed - 1) > 0.01
SpeedStage(config) == Truthy(config, "speed") /\ Off(config, "speed", 1000, 10)

\* config.scale && Math.abs(config.scale - 1) > 0.005
ScaleStage(config) == Truthy(config, "scale") /\ Off(config, "scale", 1000, 5)

\* config.cropMargins && config.cropMargins > 0.5
CropStage(config) ==
  /\ Truthy(config, "cropMargins")
  /\ 2 * config.cropMargins.num > config.cropMargins.den

\* Variant: the volume is only adjusted when the tempo is not.
VolumeStageWithoutTempo(config) ==
  /\ ~SpeedStage(config)
  /\ Truthy(config, "volume") /\ Off(config, "volume", 1000, 50)

\* config.volume && Math.abs(config.volume - 1) > 0.05
VolumeStage(config) == Truthy(config, "volume") /\ Off(config, "volume", 1000, 50)

\* Variant: the entry is pushed for an absent parameter too.
EqParamAlways(config, f) ==
  <<[name |-> f, value |-> IF f \in DOMAIN config THEN config[f] ELSE JSUndefined]>>

\* One entry of eqParams, if config[f] !== undefined.
EqParam(config, f) ==
  IF f \in DOMAIN config THEN <<[name |-> f, value |-> config[f]]>> ELSE <<>>

eqParams(config) ==
  EqParam(config, "brightness") \o EqParam(config, "contrast")
    \o EqParam(config, "saturation") \o EqParam(config, "gamma")

\* (100 - config.cropMargins) / 100
cropPercent(config) ==
  Times(Minus(JSNumber(100, 1), config.cropMargins), Hundredths(1))

\* Variant: the crop filter is pushed before the scale filter.
videoFiltersCropFirst(config) ==
  (IF SpeedStage(config)
   THEN <<[filter |-> "setpts", factor |-> Inverse(config.speed)]>> ELSE <<>>)
  \o (IF Len(eqParams(config)) > 0
      THEN <<[filter |-> "eq", params |-> eqParams(config)]>> ELSE <<>>)
  \o (IF CropStage(config)
      THEN <<[filter |-> "crop", cropPercent |-> cropPercent(config)]>> ELSE <<>>)
  \o (IF ScaleStage(config)
      THEN <<[filter |-> "scale", factor |-> config.scale]>> ELSE <<>>)
  \o (IF Flag(config, "flipHorizontal") THEN <<[filter |-> "hflip"]>> ELSE <<>>)
  \o (IF Flag(config, "addNoise") THEN <<[filter |-> "noise"]>> ELSE <<>>)

\* The videoFilters array at the end of the function.  The strength of the
\* noise filter, 1 + Math.random() * 2, is not part of the entry.
videoFilters(config) ==
  (IF SpeedStage(config)
   THEN <<[filter |-> "setpts", factor |-> Inverse(config.speed)]>> ELSE <<>>)
  \o (IF Len(eqParams(config)) > 0
      THEN <<[filter |-> "eq", params |-> eqParams(config)]>> ELSE <<>>)
  \o (IF ScaleStage(config)
      THEN <<[filter |-> "scale", factor |-> config.scale]>> ELSE <<>>)
  \o (IF CropStage(config)
      THEN <<[filter |-> "crop", cropPercent |-> cropPercent(config)]>> ELSE <<>>)
  \o (IF Flag(config, "flipHorizontal") THEN <<[filter |-> "hflip"]>> ELSE <<>>)
  \o (IF Flag(config, "addNoise") THEN <<[filter |-> "noise"]>> ELSE <<>>)

\* The audioFilters array at the end of the function.
audioFilters(config) ==
  (IF SpeedStage(config)
   THEN <<[filter |-> "atempo", factor |-> config.speed]>> ELSE <<>>)
  \o (IF VolumeStage(config)
      THEN <<[filter |-> "volume", factor |-> config.volume]>> ELSE <<>>)

\* Object.keys(config).filter(key => config[key] !== undefined &&
\* config[key] !== false), as a set.
effects(config) ==
  {key \in DOMAIN config :
     ~(key \in {"flipHorizontal", "addNoise"} /\ config[key] = FALSE)}

\* The configs processVideoWithFFmpeg is applied to: every parameter absent,
\* within its skip threshold or beyond it, inside the widest family range;
\* contrast also NaN.  No value lies on a threshold.
FilterConfigs ==
  {speed @@ brightness @@ contrast @@ saturation @@ gamma @@ scale @@ crop
     @@ flip @@ noise @@ volume :
     speed \in Optional("speed", {JSNumber(995, 1000), JSNumber(1020, 1000)}),
     brightness \in Optional("brightness", {JSNumber(10, 1000)}),
     contrast \in Optional("contrast", {JSNaN, JSNumber(1010, 1000)}),
     saturation \in Optional("saturation", {JSNumber(1000, 1000)}),
     gamma \in Optional("gamma", {JSNumber(1000, 1000)}),
     scale \in Optional("scale", {JSNumber(998, 1000), JSNumber(1010, 1000)}),
     crop \in Optional("cropMargins",
                       {JSNumber(0, 1000), JSNumber(400, 1000), JSNumber(900, 1000)}),
     flip \in Optional("flipHorizontal", {FALSE, TRUE}),
     noise \in Optional("addNoise", {FALSE, TRUE}),
     volume \in Optional("volume", {JSNumber(1040, 1000), JSNumber(900, 1000)})}

\* processVideoWithFFmpeg is about to be called with some config.
InitFilters ==
  /\ uploadedFiles = {}
  /\ uploadsDir = <<>>
  /\ processedDir = <<>>
  /\ jobs = <<>>
  /\ jobCounter = 0
  /\ task = <<>>
  /\ res = NoResponse
  /\ call \in {[fn |-> "processVideoWithFFmpeg", arg |-> config] : config \in FilterConfigs}

\* The function has built its two filter lists.
Filters ==
  /\ call.fn = "processVideoWithFFmpeg"
  /\ "videoFilters" \notin DOMAIN call
  /\ call' = [videoFilters |-> videoFilters(call.arg),
              audioFilters |-> audioFilters(call.arg)] @@ call
  /\ UNCHANGED <<uploadedFiles, uploadsDir, processedDir, jobs, jobCounter, task, res>>

SpecFilters == InitFilters /\ [][Filters]_vars

\* --------------------------------------------------- one variation of a job
\* The variation indexes the loop reaches.
MaxVariationIndex == 3

\* The Math.random() values one call of generateProcessingConfig uses for the
\* configuration it selects and for the jitter.  The values drawn for the two
\* other configurations are discarded with them; so is the third jitter value
\* when the selected configuration has no contrast.
RandomFields(variationIndex) ==
  LET family == variationIndex % FamilyCount
  IN IF family = 0
     THEN {"speed", "brightness", "contrast", "saturation", "volume",
           "flipHorizontal", "jitterSpeed", "jitterBrightness", "jitterContrast"}
     ELSE IF family = 1
     THEN {"speed", "brightness", "contrast", "saturation", "gamma", "volume",
           "addNoise", "jitterSpeed", "jitterBrightness", "jitterContrast"}
     ELSE {"speed", "brightness", "scale", "cropMargins", "flipHorizontal",
           "volume", "jitterSpeed", "jitterBrightness"}

\* The loop body is about to run for some index, with some random values.
InitVariation ==
  /\ uploadedFiles = {}
  /\ uploadsDir = <<>>
  /\ processedDir = <<>>
  /\ jobs = <<>>
  /\ jobCounter = 0
  /\ task = <<>>
  /\ res = NoResponse
  /\ call \in UNION {{[fn |-> "generateProcessingConfig", arg |-> i, random |-> random] :
                        random \in {r \in [RandomFields(i) -> UNION {Randoms(f) : f \in RandomFields(i)}] :
                                      \A f \in RandomFields(i) : r[f] \in Randoms(f)}} :
                       i \in 0..MaxVariationIndex}

\* const config = generateProcessingConfig(i)
Generate ==
  /\ call.fn = "generateProcessingConfig"
  /\ "ret" \notin DOMAIN call
  /\ call' = [ret |-> generateProcessingConfig(call.arg, call.random)] @@ call
  /\ UNCHANGED <<uploadedFiles, uploadsDir, processedDir, jobs, jobCounter, task, res>>

\* The rest of the loop body for that config: the filters
\* processVideoWithFFmpeg builds, and the similarity and effects of the
\* result pushed.
Variation ==
  /\ call.fn = "generateProcessingConfig"
  /\ "ret" \in DOMAIN call
  /\ call' = [fn |-> "processVideoWithFFmpeg",
              arg |-> call.ret,
              videoFilters |-> videoFilters(call.ret),
              audioFilters |-> audioFilters(call.ret),
              similarity |-> calculateSimilarity(call.ret),
              effects |-> effects(call.ret),
              variationIndex |-> call.arg]
  /\ UNCHANGED <<uploadedFiles, uploadsDir, processedDir, jobs, jobCounter, task, res>>

SpecVariation == InitVariation /\ [][Generate \/ Variation]_vars

\* ------------------------------ part_000: the file-processing server variant
\* The zero-dependency server keeps jobs, uploadedFiles, jobCounter and a
\* fileCounter; the file ids it issues are numbered by fileCounter, which is
\* the number of entries of uploadedFiles.  A file of its processed
\* directory is either the uploaded bytes with a signature appended
\* (content "processed") or the dummy buffer (content "dummy").

\* POST /api/video/upload: a multipart body with a file part is stored under
\* a new id; any other body is answered 400.
AdvancedUpload(hasFile) ==
  /\ Cardinality(uploadedFiles) < MaxUploads
  /\ UNCHANGED <<processedDir, jobs, jobCounter, task, call>>
  /\ IF hasFile
     THEN LET fileId == Cardinality(uploadedFiles) + 1
          IN /\ uploadsDir' = (fileId :> 0) @@ uploadsDir
             /\ uploadedFiles' = uploadedFiles \cup {fileId}
             /\ res' = [route |-> "upload", status |-> 200, videoId |-> fileId]
     ELSE /\ res' = [route |-> "upload", status |-> 400]
          /\ UNCHANGED <<uploadedFiles, uploadsDir>>

\* The catch block of processVideoAdvanced.
AdvancedFailed(job, message) ==
  [error |-> message] @@ [job EXCEPT !.status = "failed", !.message = "Processing failed"]

\* The statements after the loop of processVideoAdvanced.
AdvancedCompleted(job, results) ==
  [job EXCEPT !.status = "completed", !.data = JSArray(results),
              !.message = "Successfully created"]

\* uploadedFile ? uploadedFile.filePath : null, and fs.existsSync of it
SourceExists(videoId) == videoId \in uploadedFiles /\ videoId \in DOMAIN uploadsDir

\* createProcessedVideo: what the promise settles to, and with it what was
\* written to outputPath.  `readable` tells whether fs.readFileSync of an
\* existing source returns or throws.
createProcessedVideo(videoId, readable) ==
  IF ~SourceExists(videoId) THEN "dummy"
  ELSE IF readable THEN "processed"
  ELSE "rejected"

\* processVideoAdvanced from the head of its loop at index i to its next
\* timer or its end: the file is written synchronously and the promise is
\* already settled when it is awaited, so the statements up to the await of
\* setTimeout run in the same turn.  Yields <<job record, task state, files
\* written>>.
AdvancedLoop(j, job, i, results, readable) ==
  IF ~LoopCondition(i, job.variationCount)
  THEN <<AdvancedCompleted(job, results), Returned(i, results), <<>>>>
  ELSE LET outcome == createProcessedVideo(job.videoId, readable)
       IN IF outcome = "rejected"
          THEN <<AdvancedFailed([job EXCEPT !.message = "Creating"], "EACCES"),
                 Returned(i, results), <<>>>>
          ELSE <<[job EXCEPT !.message = "Creating",
                             !.progress = Progress(i, job.variationCount)],
                 [pc |-> "sleeping", i |-> i,
                  results |-> Append(results, Result(job.videoId, i))],
                 (<<job.videoId, i + 1>> :>
                    [age |-> 0, state |-> "complete", by |-> j, content |-> outcome])>>

\* !videoId, negated: the JSON body has a videoId that is not falsy.
AdvancedVideoGiven(body) == "videoId" \in DOMAIN body

\* POST /api/video/process
AdvancedProcess(body, readable) ==
  IF ~AdvancedVideoGiven(body)
  THEN /\ res' = [route |-> "process", status |-> 400, error |-> "Video ID required"]
       /\ UNCHANGED <<uploadedFiles, uploadsDir, processedDir, jobs, jobCounter, task, call>>
  ELSE LET jobId == jobCounter + 1
           job == [message |-> "Starting file processing..."]
                    @@ NewJob(body.videoId, variationCountOf(body))
           started == AdvancedLoop(jobId, job, 0, <<>>, readable)
       IN /\ jobCounter' = jobId
          /\ jobs' = (jobId :> started[1]) @@ jobs
          /\ task' = (jobId :> started[2]) @@ task
          /\ processedDir' = started[3] @@ processedDir
          /\ res' = [route |-> "process", status |-> 200, jobId |-> jobId]
          /\ UNCHANGED <<uploadedFiles, uploadsDir, call>>

\* The 2000 ms timer at the end of the loop body fires: i++ and the loop
\* continues.
AdvancedTimer(j, readable) ==
  /\ task[j].pc = "sleeping"
  /\ LET next == AdvancedLoop(j, jobs[j], task[j].i + 1, task[j].results, readable)
     IN /\ jobs' = [jobs EXCEPT ![j] = next[1]]
        /\ task' = [task EXCEPT ![j] = next[2]]
        /\ processedDir' = next[3] @@ processedDir
  /\ res' = NoResponse
  /\ UNCHANGED <<uploadedFiles, uploadsDir, jobCounter, call>>

\* The status and download handlers and the hourly cleanup of this server
\* are those of Status, Download and Sweep.
NextFileProcessing ==
  \/ \E hasFile \in BOOLEAN : AdvancedUpload(hasFile)
  \/ \E body \in Bodies(CountParts(VariationCounts)), readable \in BOOLEAN :
       jobCounter < MaxJobs /\ AdvancedProcess(body, readable)
  \/ \E j \in DOMAIN jobs, readable \in BOOLEAN : AdvancedTimer(j, readable)
  \/ \E param \in StatusParams : Status(param)
  \/ \E path \in DownloadPaths : Download(path)
  \/ \E d \in TickSteps : Tick(d)
  \/ Sweep

SpecFileProcessing == Init /\ [][NextFileProcessing]_vars

\* ------------------------------------- part_000: the file-copy server variant
\* The Express server that copies the upload keeps jobs and jobCounter only.
\* An upload is stored as `${uuid}${ext}` and answered with the uuid;
\* uploadsDir maps a file name to its age, and uploadedFiles holds the ids
\* the upload handler has answered with (the server itself keeps no such
\* record).  Names and ids are sequences of characters.

\* The uuid of the n-th upload.
CopyId(n) == <<"a", Digits[n + 1]>>

\* path.extname(file.originalname)
CopyExt == <<".", "m", "p", "4">>

\* f.startsWith(videoId)
StartsWith(f, videoId) ==
  Len(videoId) <= Len(f) /\ SubSeq(f, 1, Len(videoId)) = videoId

\* POST /api/video/upload
CopyUpload(kind) ==
  /\ Cardinality(uploadedFiles) < MaxUploads
  /\ UNCHANGED <<processedDir, jobs, jobCounter, task, call>>
  /\ CASE kind = "none" ->
            /\ res' = [route |-> "upload", status |-> 400]
            /\ UNCHANGED <<uploadedFiles, uploadsDir>>
       [] kind = "other" ->
            /\ res' = [route |-> "upload", status |-> 500]
            /\ UNCHANGED <<uploadedFiles, uploadsDir>>
       [] kind = "video" ->
            LET id == CopyId(Cardinality(uploadedFiles) + 1)
            IN /\ uploadsDir' = ((id \o CopyExt) :> 0) @@ uploadsDir
               /\ uploadedFiles' = uploadedFiles \cup {id}
               /\ res' = [route |-> "upload", status |-> 200, videoId |-> id]

\* The catch block of this server's processVideoReal.
CopyFailed(job, message) ==
  [error |-> message] @@ [job EXCEPT !.status = "failed", !.message = "Processing failed"]

\* The statements after the loop.
CopyCompleted(job, results) ==
  [job EXCEPT !.status = "completed", !.data = JSArray(results),
              !.message = "Successfully processed"]

\* The head of the loop at index i: createVideoVariation copies the input to
\* the output path at once and starts its timer, or fs.copyFileSync throws
\* because the input is gone.  Yields <<job record, task state, files
\* written>>.
CopyLoop(j, job, i, results, inputFilename) ==
  IF ~LoopCondition(i, job.variationCount)
  THEN <<CopyCompleted(job, results), Returned(i, results), <<>>>>
  ELSE IF inputFilename \notin DOMAIN uploadsDir
  THEN <<CopyFailed(job, "ENOENT"), Returned(i, results), <<>>>>
  ELSE <<[job EXCEPT !.message = "Processing variation"],
         [pc |-> "copying", i |-> i, results |-> results,
          inputFilename |-> inputFilename],
         (<<job.videoId, i + 1>> :> [age |-> 0, state |-> "complete", by |-> j])>>

\* The files of uploads/ the request's videoId selects.
CopyMatches(videoId) == {f \in DOMAIN uploadsDir : StartsWith(f, videoId)}

\* !videoId, negated: the body has a videoId that is not the empty string.
CopyVideoGiven(body) == "videoId" \in DOMAIN body /\ body.videoId # <<>>

\* POST /api/video/process; inputFilename is files[0].
CopyProcess(body) ==
  IF ~CopyVideoGiven(body)
  THEN /\ res' = [route |-> "process", status |-> 400, error |-> "Missing videoId"]
       /\ UNCHANGED <<uploadedFiles, uploadsDir, processedDir, jobs, jobCounter, task, call>>
  ELSE IF CopyMatches(body.videoId) = {}
  THEN /\ res' = [route |-> "process", status |-> 404, error |-> "Video file not found"]
       /\ UNCHANGED <<uploadedFiles, uploadsDir, processedDir, jobs, jobCounter, task, call>>
  ELSE \E inputFilename \in CopyMatches(body.videoId) :
         LET jobId == jobCounter + 1
             job == [message |-> "Starting video processing..."]
                      @@ NewJob(body.videoId, variationCountOf(body))
             started == CopyLoop(jobId, job, 0, <<>>, inputFilename)
         IN /\ jobCounter' = jobId
            /\ jobs' = (jobId :> started[1]) @@ jobs
            /\ task' = (jobId :> started[2]) @@ task
            /\ processedDir' = started[3] @@ processedDir
            /\ res' = [route |-> "process", status |-> 200, jobId |-> jobId]
            /\ UNCHANGED <<uploadedFiles, uploadsDir, call>>

\* The timer of createVideoVariation fires: the promise resolves, the result
\* is pushed and the progress updated, or fs.statSync throws because the
\* output is gone.
CopyVariationTimer(j) ==
  /\ task[j].pc = "copying"
  /\ IF OutputPath(j) \in DOMAIN processedDir
     THEN /\ jobs' = [jobs EXCEPT ![j].progress =
                                    Progress(task[j].i, jobs[j].variationCount)]
          /\ task' = [task EXCEPT ![j].pc = "sleeping",
                                  ![j].results = Append(@, Result(jobs[j].videoId, task[j].i))]
     ELSE /\ jobs' = [jobs EXCEPT ![j] = CopyFailed(jobs[j], "ENOENT")]
          /\ task' = [task EXCEPT ![j] = Returned(task[j].i, task[j].results)]
  /\ res' = NoResponse
  /\ UNCHANGED <<uploadedFiles, uploadsDir, processedDir, jobCounter, call>>

\* The 2000 ms timer at the end of the loop body fires: i++ and the loop
\* continues.
CopySleepTimer(j) ==
  /\ task[j].pc = "sleeping"
  /\ LET next == CopyLoop(j, jobs[j], task[j].i + 1, task[j].results,
                          task[j].inputFilename)
     IN /\ jobs' = [jobs EXCEPT ![j] = next[1]]
        /\ task' = [task EXCEPT ![j] = next[2]]
        /\ processedDir' = next[3] @@ processedDir
  /\ res' = NoResponse
  /\ UNCHANGED <<uploadedFiles, uploadsDir, jobCounter, call>>

\* The videoId of a request: an issued uuid, a file name, the first
\* character of the uuids, another character, or the empty string.
CopyVideoIds ==
  {CopyId(n) : n \in 1..MaxUploads} \cup {CopyId(1) \o CopyExt, <<"a">>, <<"b">>, <<>>}

CopyBodies ==
  LET videoPart == {<<>>} \cup {[videoId |-> v] : v \in CopyVideoIds}
  IN {vp @@ cp : vp \in videoPart, cp \in CountParts(VariationCounts)}

\* The status handler and the hourly cleanup of this server are those of
\* Status and Sweep.
NextFileCopy ==
  \/ \E kind \in {"none", "other", "video"} : CopyUpload(kind)
  \/ \E body \in CopyBodies : jobCounter < MaxJobs /\ CopyProcess(body)
  \/ \E j \in DOMAIN jobs : CopyVariationTimer(j)
  \/ \E j \in DOMAIN jobs : CopySleepTimer(j)
  \/ \E param \in StatusParams : Status(param)
  \/ \E d \in TickSteps : Tick(d)
  \/ Sweep

SpecFileCopy == Init /\ [][NextFileCopy]_vars

\* ================================================================== claims
IsPositiveInteger(n) == n.type = "number" /\ n.den = 1 /\ n.num > 0

\* The result list a status response shows: the entries of data, none for null.
ResultList(job) == IF job.data.type = "array" THEN job.data.items ELSE <<>>

\* The path parameter that names job j.
ParamOf(j) == <<Digits[j + 1]>>

NotFoundResponse == [route |-> "status", status |-> 200, body |-> [status |-> "not_found"]]

\* C1: a job's status only ever goes from active to completed or to failed,
\* and once it is completed or failed no step (polls, other jobs, the sweep,
\* new requests) changes the job record again.
C1_TerminalJobsFrozen ==
  [][\A j \in DOMAIN jobs :
       /\ j \in DOMAIN jobs'
       /\ jobs'[j].status \in {"active", "completed", "failed"}
       /\ jobs[j].status # "active" => jobs'[j] = jobs[j]]_vars

\* A failed job and a later, completed one, after the sweep removed the source.
C1_Witness ==
  \E j, k \in DOMAIN jobs :
    /\ j < k
    /\ jobs[j].status = "failed"
    /\ jobs[k].status = "completed" /\ jobs[k].progress = 100
    /\ StatusResponse(ParamOf(j)).body.status = "failed"
    /\ uploadsDir = <<>>

\* C2: a completed job whose variationCount is a positive integer N has
\* exactly N results and progress 100.
C2_CompletedHasAllResults ==
  \A j \in DOMAIN jobs :
    (jobs[j].status = "completed" /\ IsPositiveInteger(jobs[j].variationCount))
      => /\ jobs[j].data.type = "array"
         /\ Len(jobs[j].data.items) = jobs[j].variationCount.num
         /\ jobs[j].progress = 100

C2_Witness ==
  \E j \in DOMAIN jobs :
    /\ jobs[j].status = "completed"
    /\ jobs[j].variationCount = JSNumber(MaxLargeCount, 1)
    /\ Len(jobs[j].data.items) = MaxLargeCount

\* C3: progress is 100 exactly when the status is completed; stated here for
\* the jobs whose variationCount is a positive integer.
C3_HundredIffCompleted ==
  \A j \in DOMAIN jobs :
    IsPositiveInteger(jobs[j].variationCount)
      => (jobs[j].progress = 100 <=> jobs[j].status = "completed")

\* C4: no step lowers the progress of a job.
C4_ProgressNeverDecreases ==
  [][\A j \in DOMAIN jobs :
       j \in DOMAIN jobs' /\ jobs'[j].progress >= jobs[j].progress]_vars

\* A job that has raised its progress and is running its next variation.
C4_Witness ==
  \E j \in DOMAIN jobs :
    /\ jobs[j].status = "active"
    /\ jobs[j].progress = 50
    /\ task[j].pc = "encoding"

\* C5: after a pipeline failure at index k the status endpoint shows the k
\* results of the variations that completed before it.
C5_PartialResultsShown ==
  \A j \in DOMAIN jobs :
    jobs[j].status = "failed"
      => ResultList(StatusResponse(ParamOf(j)).body) = task[j].results

\* round(k / N * 100), the progress after k completed variations.
ProgressAfter(k, variationCount) ==
  IF k = 0 THEN 0
  ELSE (k * variationCount.den * 200 + variationCount.num)
         \div (2 * variationCount.num)

\* C6: a failure at index k makes the job failed with the error message,
\* leaves its progress at round(k / N * 100), and ends its task: no later
\* invocation is started.
C6_FailureStopsJob ==
  /\ [](\A j \in DOMAIN jobs :
          jobs[j].status = "failed"
            => /\ "error" \in DOMAIN jobs[j]
               /\ jobs[j].error \in {"ffmpeg error", "Video file not found"}
               /\ task[j].pc = "returned"
               /\ jobs[j].progress = ProgressAfter(task[j].i, jobs[j].variationCount))
  /\ [][\A j \in DOMAIN jobs :
          /\ (task[j].pc # "returned" /\ jobs'[j].status = "failed")
               => /\ jobs'[j].error = "ffmpeg error"
                  /\ jobs'[j].progress = jobs[j].progress
                  /\ task'[j].i = task[j].i
          /\ task[j].pc = "returned" => task'[j] = task[j]]_vars

\* A job that failed at its second variation.
C6_Witness ==
  \E j \in DOMAIN jobs :
    /\ jobs[j].status = "failed"
    /\ jobs[j].error = "ffmpeg error"
    /\ task[j].i = 1
    /\ jobs[j].progress = 50

\* C7: no job exists for a request whose variationCount is not a positive
\* integer.
C7_OnlyPositiveIntegerCounts ==
  \A j \in DOMAIN jobs : IsPositiveInteger(jobs[j].variationCount)

\* C8: a process request is answered 400 or 200; a 400 leaves the jobs map,
\* the counter and the tasks alone, and a job only ever exists for a
\* registered video id, so a request with a missing or unregistered id is
\* the one answered 400.
C8_UnknownVideoCreatesNoJob ==
  /\ [](\A j \in DOMAIN jobs : jobs[j].videoId \in uploadedFiles)
  /\ [][/\ res'.route = "process" =>
             \/ /\ res' = [route |-> "process", status |-> 400,
                           error |-> "Video not found"]
                /\ UNCHANGED <<jobs, jobCounter, task>>
             \/ /\ res'.status = 200
                /\ DOMAIN jobs' = DOMAIN jobs \cup {res'.jobId}
        /\ res'.route # "process" => DOMAIN jobs' = DOMAIN jobs]_vars

\* A rejected request while a job exists.
C8_Witness ==
  /\ res = [route |-> "process", status |-> 400, error |-> "Video not found"]
  /\ jobCounter = 1
  /\ DOMAIN jobs = {1}

\* C9: the status of an id that no process request was answered with is the
\* not_found sentinel, sent with status 200.
C9_UnknownJobIsNotFound ==
  \A param \in StatusParams :
    LET jobId == parseInt(param)
    IN ~(jobId.den = 1 /\ jobId.num \in 1..jobCounter)
         => StatusResponse(param) = NotFoundResponse

\* Jobs exist: a poll for the last one shows it, a poll for the next id does not.
C9_Witness ==
  /\ jobCounter >= 1
  /\ StatusResponse(ParamOf(jobCounter)).body = jobs[jobCounter]
  /\ StatusResponse(ParamOf(jobCounter + 1)) = NotFoundResponse

\* C10: the id a process request is answered with is one more than the
\* counter, greater than every id issued before, and not the id of an
\* existing job.
C10_JobIdsIncrease ==
  [][(res'.route = "process" /\ res'.status = 200)
       => /\ res'.jobId = jobCounter + 1
          /\ jobCounter' = res'.jobId
          /\ res'.jobId \notin DOMAIN jobs
          /\ \A k \in DOMAIN jobs : k < res'.jobId /\ k \in DOMAIN jobs']_vars

\* A second job created while the first one's FFmpeg is running.
C10_Witness ==
  /\ res = [route |-> "process", status |-> 200, jobId |-> 2]
  /\ task[1].pc = "encoding"

\* The output files of job j that an invocation has opened and not finished.
Unfinished(j) ==
  {p \in DOMAIN processedDir :
     processedDir[p].state = "partial" /\ processedDir[p].by = j}

\* C11: a job has at most one pipeline invocation in flight: while the
\* invocation for index i runs, exactly the results of the indices before i
\* are recorded with their progress, and the next invocation is started only
\* by the step in which the running one ended and its result and progress
\* were recorded.
C11_OneInvocationAtATime ==
  /\ [](\A j \in DOMAIN jobs :
          /\ jobs[j].status = "active" <=> task[j].pc \in {"spawned", "encoding"}
          /\ Cardinality(Unfinished(j)) <= 1
          /\ task[j].pc \in {"spawned", "encoding"} =>
               /\ Len(task[j].results) = task[j].i
               /\ \A k \in 1..task[j].i :
                    task[j].results[k] = Result(jobs[j].videoId, k - 1)
               /\ jobs[j].progress = ProgressAfter(task[j].i, jobs[j].variationCount))
  /\ [][\A j \in DOMAIN jobs' :
          (task'[j].pc = "spawned" /\ (j \notin DOMAIN jobs \/ task'[j] # task[j]))
            => IF j \notin DOMAIN jobs THEN task'[j].i = 0
               ELSE /\ task[j].pc = "encoding"
                    /\ task'[j].i = task[j].i + 1
                    /\ task'[j].results =
                         Append(task[j].results, Result(jobs[j].videoId, task[j].i))
                    /\ processedDir'[OutputPath(j)].state = "complete"
                    /\ jobs'[j].progress = Progress(task[j].i, jobs[j].variationCount)]_vars

\* The second invocation of a job has been started and not yet opened its
\* files; the first one's result is recorded.
C11_Witness ==
  \E j \in DOMAIN jobs :
    /\ task[j].pc = "spawned"
    /\ task[j].i = 1
    /\ task[j].results = <<Result(jobs[j].videoId, 0)>>
    /\ Unfinished(j) = {}

\* C12: no invocation writes a path that another job wrote: every recorded
\* result whose file is in the processed directory refers to bytes written
\* by its own job.
C12_ResultsReferToOwnBytes ==
  \A j \in DOMAIN jobs :
    \A k \in 1..Len(task[j].results) :
      LET path == task[j].results[k].id
      IN path \in DOMAIN processedDir => processedDir[path].by = j

\* Job j has an invocation that has not opened the source yet, or a
\* variation after the running one.
NeedsSource(j) ==
  /\ jobs[j].status = "active"
  /\ \/ task[j].pc = "spawned"
     \/ LoopCondition(task[j].i + 1, jobs[j].variationCount)

\* C13: the uploaded file of a video is in the uploads directory as long as
\* an active job has variations left to process from it.
C13_SourceKeptWhileNeeded ==
  \A j \in DOMAIN jobs : NeedsSource(j) => jobs[j].videoId \in DOMAIN uploadsDir

\* C14: whatever fails in a background task (the source is missing at the
\* start, FFmpeg errors, statSync of the output throws), the task returns:
\* its promise is never rejected, and a task that returned without
\* completing its job left it failed with an error message.
C14_FailuresStayInTheTask ==
  \A j \in DOMAIN jobs :
    /\ task[j].pc \in {"spawned", "encoding", "returned"}
    /\ task[j].pc = "returned" => jobs[j].status \in {"completed", "failed"}
    /\ jobs[j].status = "active" => task[j].pc \in {"spawned", "encoding"}
    /\ jobs[j].status = "failed"
         => /\ "error" \in DOMAIN jobs[j]
            /\ jobs[j].error \in {"Video file not found", "ffmpeg error", "ENOENT"}

\* One job failed on the stat of its output, a later one on its missing source.
C14_Witness ==
  \E j, k \in DOMAIN jobs :
    /\ jobs[j].status = "failed" /\ jobs[j].error = "ENOENT"
    /\ jobs[k].status = "failed" /\ jobs[k].error = "Video file not found"
    /\ task[j].pc = "returned" /\ task[k].pc = "returned"

\* C15: when every pipeline invocation ends or errors, every job that was
\* created is completed or failed at some later time; until then it is
\* never suspended: an active job always has a step of its invocation
\* ahead, and it leaves the active status only for completed or failed.
\* A finished job stays finished and the jobs are finitely many, so "every
\* job ends" is stated as: again and again no job is active.
C15_EveryJobEnds ==
  /\ []<>(\A j \in DOMAIN jobs : jobs[j].status \in {"completed", "failed"})
  /\ [](\A j \in DOMAIN jobs : jobs[j].status = "active" => ENABLED Invocation(j))

\* Every job the bound allows was created and none is active any more; one
\* of them ran both of its variations.
C15_Witness ==
  /\ jobCounter = MaxJobs
  /\ \A j \in DOMAIN jobs : jobs[j].status \in {"completed", "failed"}
  /\ \E j \in DOMAIN jobs :
       jobs[j].status = "completed" /\ Len(ResultList(jobs[j])) = 2

\* C16: calculateSimilarity returns an integer from 50 to 70 for every
\* config: 70 for the config without any field, and 50 for the largest
\* cropMargins.
C16_SimilarityInRange ==
  (call.fn = "calculateSimilarity" /\ "ret" \in DOMAIN call)
    => /\ call.ret \in 50..70
       /\ call.arg = <<>> => call.ret = 70
       /\ ("cropMargins" \in DOMAIN call.arg
             /\ call.arg.cropMargins = JSNumber(MaxCropMargins, 1)) => call.ret = 50

\* The call with every penalty and the largest cropMargins returned 50.
C16_Witness ==
  /\ call.fn = "calculateSimilarity"
  /\ "ret" \in DOMAIN call
  /\ call.ret = 50
  /\ DOMAIN call.arg = {"speed", "brightness", "contrast", "saturation",
                        "flipHorizontal", "addNoise", "scale", "cropMargins", "volume"}
  /\ call.arg.cropMargins = JSNumber(MaxCropMargins, 1)
  /\ call.arg.flipHorizontal

\* C17: in the step that completes a job, every entry of its result list
\* names a file that is in the processed directory, so that a download of
\* it is answered with the file.
C17_CompletedResultsDownloadable ==
  [][\A j \in DOMAIN jobs :
       (jobs[j].status = "active" /\ jobs'[j].status = "completed")
         => \A k \in 1..Len(ResultList(jobs'[j])) :
              ResultList(jobs'[j])[k].id \in DOMAIN processedDir']_vars

\* Some invocation writing to path has ended: a task recorded a result for it.
Produced(path) ==
  \E j \in DOMAIN task :
    \E k \in 1..Len(task[j].results) : task[j].results[k].id = path

\* C18: a download of an id whose artifact was never produced, or whose
\* file is no longer in the processed directory, is answered 404.
C18_NoBytesWithoutArtifact ==
  \A path \in DownloadPaths :
    (~Produced(path) \/ path \notin DOMAIN processedDir)
      => DownloadResponse(path) = [route |-> "download", status |-> 404]

\* C19: a sweep removes exactly the files of uploads/ and processed/ whose
\* age is greater than maxAge and leaves every other file as it is; and no
\* step removes a file whose age is at most maxAge.
C19_SweepRemovesExactlyTheOld ==
  /\ [][Sweep =>
          /\ \A v \in DOMAIN uploadsDir :
               IF uploadsDir[v] > maxAge THEN v \notin DOMAIN uploadsDir'
               ELSE v \in DOMAIN uploadsDir' /\ uploadsDir'[v] = uploadsDir[v]
          /\ \A p \in DOMAIN processedDir :
               IF processedDir[p].age > maxAge THEN p \notin DOMAIN processedDir'
               ELSE p \in DOMAIN processedDir' /\ processedDir'[p] = processedDir[p]]_vars
  /\ [][/\ \A v \in DOMAIN uploadsDir \ DOMAIN uploadsDir' : uploadsDir[v] > maxAge
        /\ \A p \in DOMAIN processedDir \ DOMAIN processedDir' :
             processedDir[p].age > maxAge]_vars

\* The upload is gone, the first output is gone, and the second output, at
\* exactly maxAge, is there; nothing older than maxAge is left.
C19_Witness ==
  /\ \E v \in uploadedFiles :
       /\ v \notin DOMAIN uploadsDir
       /\ <<v, 1>> \notin DOMAIN processedDir
       /\ Produced(<<v, 1>>)
       /\ <<v, 2>> \in DOMAIN processedDir
       /\ processedDir[<<v, 2>>].age = maxAge
  /\ \A p \in DOMAIN processedDir : processedDir[p].age <= maxAge

\* C20: a job record changes only in a step of that job's own background
\* task (the continuation after its invocation ended or errored); every
\* other step (a poll, an upload, a download, a process request, another
\* job's task, the passing of time, the sweep) leaves every existing job
\* record as it is.
C20_OnlyOwnTaskWritesJob ==
  [][\A j \in DOMAIN jobs :
       /\ j \in DOMAIN jobs'
       /\ jobs'[j] # jobs[j] => (FfmpegEnd(j) \/ FfmpegError(j))]_vars

\* One job is completed; another one is running its second variation after
\* the sweep removed the upload both were made from.
C20_Witness ==
  \E j, k \in DOMAIN jobs :
    /\ jobs[j].status = "completed"
    /\ jobs[k].status = "active" /\ jobs[k].progress = 50
    /\ jobs[j].videoId = jobs[k].videoId
    /\ jobs[k].videoId \notin DOMAIN uploadsDir

\* C21: when a process request is answered with a jobId, the job of that id
\* exists, is active, has progress 0 and no results.  Stated for requests
\* whose variationCount is a positive integer.
C21_AnsweredJobIsFresh ==
  (/\ res.route = "process"
   /\ res.status = 200
   /\ res.jobId \in DOMAIN jobs
   /\ IsPositiveInteger(jobs[res.jobId].variationCount))
    => /\ jobs[res.jobId].status = "active"
       /\ jobs[res.jobId].progress = 0
       /\ ResultList(jobs[res.jobId]) = <<>>

\* C22: the progress of every job is an integer from 0 to 100, whatever
\* variationCount the process request carried.
C22_ProgressWithinBounds ==
  \A j \in DOMAIN jobs : jobs[j].progress \in 0..100

\* The parameters each configuration family defines.
FamilyParameters(family) ==
  IF family = 0
  THEN {"speed", "brightness", "contrast", "saturation", "volume", "flipHorizontal"}
  ELSE IF family = 1
  THEN {"speed", "brightness", "contrast", "saturation", "gamma", "volume", "addNoise"}
  ELSE {"speed", "brightness", "scale", "cropMargins", "flipHorizontal", "volume"}

\* C23: the config generateProcessingConfig(i) returns has only the
\* parameters of family i mod 3, and for the geometric family (i mod 3 = 2),
\* which defines no contrast, the pipeline's eq filter has no contrast term.
C23_OnlyFamilyParameters ==
  /\ (call.fn = "generateProcessingConfig" /\ "ret" \in DOMAIN call)
       => DOMAIN call.ret \subseteq FamilyParameters(call.arg % FamilyCount)
  /\ (call.fn = "processVideoWithFFmpeg" /\ call.variationIndex % FamilyCount = 2)
       => \A k \in 1..Len(call.videoFilters) :
            call.videoFilters[k].filter = "eq"
              => \A n \in 1..Len(call.videoFilters[k].params) :
                   call.videoFilters[k].params[n].name # "contrast"

\* The range of each numeric parameter of each family, in hundredths.
FamilyRange(family, f) ==
  IF family = 0
  THEN CASE f = "speed" -> <<95, 105>>
         [] f = "brightness" -> <<0 - 5, 5>>
         [] f = "contrast" -> <<95, 105>>
         [] f = "saturation" -> <<90, 110>>
         [] f = "volume" -> <<90, 110>>
  ELSE IF family = 1
  THEN CASE f = "speed" -> <<98, 102>>
         [] f = "brightness" -> <<0 - 2, 2>>
         [] f = "contrast" -> <<98, 102>>
         [] f = "saturation" -> <<95, 105>>
         [] f = "gamma" -> <<95, 105>>
         [] f = "volume" -> <<95, 105>>
  ELSE CASE f = "speed" -> <<96, 104>>
         [] f = "brightness" -> <<0 - 3, 3>>
         [] f = "scale" -> <<98, 102>>
         [] f = "cropMargins" -> <<0, 200>>
         [] f = "volume" -> <<92, 108>>

\* lo <= n <= hi, for lo and hi in hundredths.
Within(n, range) ==
  /\ ~Greater(Hundredths(range[1]), n)
  /\ ~Greater(n, Hundredths(range[2]))

\* C24: every numeric parameter of the returned config that its family
\* defines lies inside the family's range, also after the jitter on speed,
\* brightness and contrast.
C24_ParametersInFamilyRange ==
  (call.fn = "generateProcessingConfig" /\ "ret" \in DOMAIN call)
    => \A f \in (DOMAIN call.ret \cap FamilyParameters(call.arg % FamilyCount))
                  \ {"flipHorizontal", "addNoise"} :
         Within(call.ret[f], FamilyRange(call.arg % FamilyCount, f))

\* The pipeline filters that apply a parameter of the config.
StagesOf(f) ==
  CASE f = "speed" -> {"setpts", "atempo"}
    [] f \in {"brightness", "contrast", "saturation", "gamma"} -> {"eq"}
    [] f = "scale" -> {"scale"}
    [] f = "cropMargins" -> {"crop"}
    [] f = "flipHorizontal" -> {"hflip"}
    [] f = "addNoise" -> {"noise"}
    [] f = "volume" -> {"volume"}

FilterNames(filters) == {filters[k].filter : k \in 1..Len(filters)}

\* C25: the effects of a result name exactly the stages the pipeline applied
\* for that variation: every parameter listed has its filters in the lists
\* processVideoWithFFmpeg built, and every filter built has a parameter
\* listed.
C25_EffectsAreAppliedStages ==
  call.fn = "processVideoWithFFmpeg"
    => LET applied == FilterNames(call.videoFilters) \cup FilterNames(call.audioFilters)
       IN /\ \A f \in call.effects : StagesOf(f) \subseteq applied
          /\ \A stage \in applied : \E f \in call.effects : stage \in StagesOf(f)

\* The entries of a filter list with the given name.
Named(filters, name) == {filters[k] : k \in {n \in 1..Len(filters) : filters[n].filter = name}}

\* The number of entries of a filter list with the given name.
Count(filters, name) == Cardinality({k \in 1..Len(filters) : filters[k].filter = name})

Rank(name) ==
  CASE name = "setpts" -> 1 [] name = "eq" -> 2 [] name = "scale" -> 3
    [] name = "crop" -> 4 [] name = "hflip" -> 5 [] name = "noise" -> 6
    [] name = "atempo" -> 1 [] name = "volume" -> 2

\* The filters of a list stand in the order of the stages.
InStageOrder(filters) ==
  \A k, m \in 1..Len(filters) :
    k < m => Rank(filters[k].filter) < Rank(filters[m].filter)

\* C30: the video filters are an order-preserving sub-list of setpts, eq,
\* scale, crop, hflip, noise (so crop never precedes scale, and noise, when
\* present, is last); the audio filters are such a sub-list of atempo,
\* volume.
C30_FiltersInStageOrder ==
  (call.fn = "processVideoWithFFmpeg" /\ "videoFilters" \in DOMAIN call)
    => /\ FilterNames(call.videoFilters) \subseteq
            {"setpts", "eq", "scale", "crop", "hflip", "noise"}
       /\ FilterNames(call.audioFilters) \subseteq {"atempo", "volume"}
       /\ InStageOrder(call.videoFilters)
       /\ InStageOrder(call.audioFilters)
       /\ "noise" \in FilterNames(call.videoFilters)
            => call.videoFilters[Len(call.videoFilters)].filter = "noise"

\* For a config with every stage beyond its threshold the six video filters
\* stand with scale third, crop fourth and noise last, and atempo stands
\* before volume.
C30_Witness ==
  /\ call.fn = "processVideoWithFFmpeg"
  /\ "videoFilters" \in DOMAIN call
  /\ Len(call.videoFilters) = 6
  /\ call.videoFilters[3].filter = "scale"
  /\ call.videoFilters[4].filter = "crop"
  /\ call.videoFilters[6].filter = "noise"
  /\ Len(call.audioFilters) = 2
  /\ call.audioFilters[1].filter = "atempo"
  /\ call.audioFilters[2].filter = "volume"

\* A parameter that is present and more than `percent` percent away from 1.
Deviates(config, f, percent) ==
  /\ f \in DOMAIN config
  /\ config[f].den # 0
  /\ \/ 100 * config[f].num > (100 + percent) * config[f].den
     \/ 100 * config[f].num < (100 - percent) * config[f].den

\* The sum of the penalties of a config, the one for speed applying beyond
\* speedPercent percent.
Penalties(config, speedPercent) ==
  LET crop == IF "cropMargins" \in DOMAIN config THEN config.cropMargins ELSE JSNaN
  IN (IF Deviates(config, "speed", speedPercent) THEN 5 ELSE 0)
     + (IF "brightness" \in DOMAIN config
            /\ Greater(JSNumber(Abs(config.brightness.num), config.brightness.den),
                       Hundredths(2))
        THEN 4 ELSE 0)
     + (IF Deviates(config, "contrast", 2) THEN 4 ELSE 0)
     + (IF Deviates(config, "saturation", 5) THEN 3 ELSE 0)
     + (IF "flipHorizontal" \in DOMAIN config /\ config.flipHorizontal THEN 8 ELSE 0)
     + (IF "addNoise" \in DOMAIN config /\ config.addNoise THEN 3 ELSE 0)
     + (IF Deviates(config, "scale", 1) THEN 3 ELSE 0)
     + (IF crop.den # 0 /\ Greater(crop, JSNumber(1, 1))
        THEN (2 * crop.num + crop.den) \div (2 * crop.den) ELSE 0)
     + (IF Deviates(config, "volume", 5) THEN 2 ELSE 0)

\* clamp(100 - P, 50, 70)
Score(P) == IF 100 - P < 50 THEN 50 ELSE IF 100 - P > 70 THEN 70 ELSE 100 - P

\* C28 as stated: calculateSimilarity is clamp(100 - P, 50, 70), where the
\* penalty for speed applies when speed deviates from 1 by more than 4%.
C28_SimilarityIsSpecScore ==
  (call.fn = "calculateSimilarity" /\ "ret" \in DOMAIN call)
    => call.ret = Score(Penalties(call.arg, 4))

\* C28, amended: calculateSimilarity is clamp(100 - P, 50, 70), where the
\* penalty for speed applies when speed deviates from 1 by more than 2%; the
\* other penalties are 4 if |brightness| > 0.02, 4 if contrast deviates by
\* more than 2%, 3 if saturation deviates by more than 5%, 8 for the flip
\* flag, 3 for the noise flag, 3 if scale deviates by more than 1%,
\* round(cropMargins) if cropMargins > 1 and 2 if volume deviates by more
\* than 5%; absent parameters contribute nothing.
C28_SimilarityIsPenaltySum ==
  (call.fn = "calculateSimilarity" /\ "ret" \in DOMAIN call)
    => call.ret = Score(Penalties(call.arg, 2))

\* A config whose speed is 3% off and whose other penalties add up to 27
\* scored 68.
C28_Witness ==
  /\ call.fn = "calculateSimilarity"
  /\ "ret" \in DOMAIN call
  /\ "speed" \in DOMAIN call.arg
  /\ call.arg.speed = JSNumber(1030, 1000)
  /\ Penalties(call.arg, 4) = 27
  /\ call.ret = 68

\* C26: in the servers of part_000 that run background jobs, a process
\* request creates a job only for a videoId that is exactly an id an upload
\* was answered with; any other request leaves the jobs and the job counter
\* as they are.
C26_JobOnlyForUploadedId ==
  [][(jobCounter' # jobCounter \/ DOMAIN jobs' # DOMAIN jobs)
       => \A j \in DOMAIN jobs' \ DOMAIN jobs : jobs'[j].videoId \in uploadedFiles]_vars

\* C27: in the file-processing server a variation whose uploaded source
\* cannot be read makes the job fail: when the task of a job reaches a
\* variation while the uploaded file of its video is gone, the job gets no
\* further result and is failed.
C27_UnreadableSourceFailsJob ==
  [][\A j \in DOMAIN task' :
       LET isNew == j \notin DOMAIN task
           before == IF isNew THEN 0 ELSE Len(task[j].results)
           i == IF isNew THEN 0 ELSE task[j].i + 1
       IN (/\ jobs'[j].videoId \in uploadedFiles
           /\ jobs'[j].videoId \notin DOMAIN uploadsDir
           /\ isNew \/ task'[j] # task[j]
           /\ LoopCondition(i, jobs'[j].variationCount))
            => /\ Len(task'[j].results) = before
               /\ jobs'[j].status = "failed"]_vars

\* Every Math.random() call of generateProcessingConfig(variationIndex)
\* returning k / RandomDenominator.
ConstantRandom(variationIndex, k) ==
  [f \in RandomFields(variationIndex) |-> JSNumber(k, RandomDenominator)]

\* C31: generateProcessingConfig(i) takes its base config from family
\* i mod 3: its keys are the parameters of that family whatever the random
\* source returned, and a call with index j and other random values has a
\* base config of the same keys exactly when j mod 3 = i mod 3, so i and
\* i + 3 share a family and three consecutive indexes have three families.
C31_FamilyByIndexModThree ==
  (call.fn = "generateProcessingConfig" /\ "ret" \in DOMAIN call)
    => LET keys == DOMAIN BaseConfig(call.arg, call.random)
       IN /\ keys = FamilyParameters(call.arg % 3)
          /\ \A j \in 0..MaxVariationIndex : \A k \in RandomDraws("scale") :
               (DOMAIN BaseConfig(j, ConstantRandom(j, k)) = keys)
                 <=> (j % 3 = call.arg % 3)

\* generateProcessingConfig(3) has returned, with a low draw for the speed,
\* a config of the family of index 0 and not of the families of 1 and 2.
C31_Witness ==
  /\ call.fn = "generateProcessingConfig"
  /\ "ret" \in DOMAIN call
  /\ call.arg = 3
  /\ call.random.speed = JSNumber(1, RandomDenominator)
  /\ call.random # ConstantRandom(3, 9)
  /\ DOMAIN BaseConfig(call.arg, call.random) = DOMAIN BaseConfig(0, ConstantRandom(0, 9))
  /\ DOMAIN BaseConfig(call.arg, call.random) # DOMAIN BaseConfig(1, ConstantRandom(1, 9))
  /\ DOMAIN BaseConfig(call.arg, call.random) # DOMAIN BaseConfig(2, ConstantRandom(2, 9))

\* C32: for the config with every parameter absent, processVideoWithFFmpeg
\* builds no video filter and no audio filter, and the effects computed for
\* the result of that config are empty.
C32_EmptyConfigAppliesNothing ==
  (/\ call.fn = "processVideoWithFFmpeg"
   /\ "videoFilters" \in DOMAIN call
   /\ DOMAIN call.arg = {})
    => /\ call.videoFilters = <<>>
       /\ call.audioFilters = <<>>
       /\ effects(call.arg) = {}

\* processVideoWithFFmpeg has built its lists for the config without keys.
C32_Witness ==
  /\ call.fn = "processVideoWithFFmpeg"
  /\ "videoFilters" \in DOMAIN call
  /\ DOMAIN call.arg = {}
  /\ Len(call.videoFilters) + Len(call.audioFilters) = 0

\* n < variationCount, as JavaScript compares a length with the value.
ShorterThan(n, variationCount) ==
  LET count == ToNumber(variationCount)
  IN count.den > 0 /\ n * count.den < count.num

\* C33: whatever the background tasks have done so far, the status response
\* for a job shows data other than null exactly when it shows the status
\* completed, and then the data is a list not shorter than variationCount.
C33_DataIffCompleted ==
  \A j \in DOMAIN jobs :
    LET body == StatusResponse(ParamOf(j)).body
    IN /\ (body.data # JSNull) <=> (body.status = "completed")
       /\ body.status = "completed"
            => /\ body.data.type = "array"
               /\ ~ShorterThan(Len(body.data.items), body.variationCount)

\* One job is completed with its two results while the task of another has
\* pushed its first result and awaits the second invocation.
C33_Witness ==
  \E j, k \in DOMAIN jobs :
    /\ StatusResponse(ParamOf(j)).body.status = "completed"
    /\ Len(StatusResponse(ParamOf(j)).body.data.items) = 2
    /\ StatusResponse(ParamOf(k)).body.status = "active"
    /\ StatusResponse(ParamOf(k)).body.data = JSNull
    /\ Len(task[k].results) = 1
    /\ task[k].pc = "encoding"

\* C34: for every config generateProcessingConfig returns, the penalties of
\* calculateSimilarity add up to at most 30, and the similarity of the result
\* built from it is 70.
C34_GeneratedSimilarityIsSeventy ==
  call.fn = "processVideoWithFFmpeg"
    => /\ Penalties(call.arg, 2) <= 30
       /\ call.similarity = 70

\* A geometric config with every penalty its family can collect: speed,
\* brightness, scale, two for the crop margins, flip and volume.
C34_Witness ==
  /\ call.fn = "processVideoWithFFmpeg"
  /\ call.variationIndex = 2
  /\ Greater(call.arg.cropMargins, Hundredths(150))
  /\ call.arg.flipHorizontal
  /\ Penalties(call.arg, 2) = 24
  /\ call.similarity = 70

\* The registered video ids whose uploaded file is no longer in uploads/.
Swept == uploadedFiles \ DOMAIN uploadsDir

\* C35: a process request for a registered id whose uploaded file the sweep
\* has deleted is still accepted, and the job it creates is failed with the
\* error 'Video file not found', progress 0 and data null, its task returned
\* without starting an invocation; no step that removes files removes an
\* entry of uploadedFiles or changes jobs.
C35_SweptSourceFailsJob ==
  [][/\ \A v \in Swept : VideoFound([videoId |-> v])
     /\ \A j \in DOMAIN jobs' \ DOMAIN jobs :
          jobs'[j].videoId \in Swept
            => /\ res' = [route |-> "process", status |-> 200, jobId |-> j]
               /\ jobs'[j].status = "failed"
               /\ jobs'[j].error = "Video file not found"
               /\ jobs'[j].progress = 0
               /\ jobs'[j].data = JSNull
               /\ task'[j] = Returned(0, <<>>)
               /\ processedDir' = processedDir
     /\ (DOMAIN uploadsDir' # DOMAIN uploadsDir /\ DOMAIN uploadsDir' \subseteq DOMAIN uploadsDir)
          => uploadedFiles' = uploadedFiles /\ jobs' = jobs]_vars

\* The job of a request that came after the sweep removed the source: failed
\* from its creation, while the id is still registered.
C35_Witness ==
  /\ res.route = "process" /\ res.status = 200
  /\ jobs[res.jobId].videoId \in Swept
  /\ jobs[res.jobId].status = "failed"
  /\ jobs[res.jobId].error = "Video file not found"
  /\ jobs[res.jobId].variationCount = JSNumber(2, 1)
  /\ task[res.jobId] = Returned(0, <<>>)
  /\ processedDir = <<>>

\* C36: a download is answered with a file only when the invocation that
\* writes it has ended successfully: the bytes sent are those of a complete
\* artifact, and while an invocation is still writing to the path the
\* answer is 404.
C36_NoPartialDownload ==
  \A path \in DownloadPaths :
    /\ DownloadResponse(path).status = 200
         => DownloadResponse(path).bytes.state = "complete"
    /\ BeingWritten(path) => DownloadResponse(path).status = 404

\* C37: the keys of jobs are exactly 1..jobCounter and a status poll for each
\* of them is answered with the job; a rejected process request leaves the
\* counter and the map as they are, an accepted one adds the one record
\* jobCounter + 1, and no step removes a record.
C37_JobsAreOneToCounter ==
  /\ [](/\ DOMAIN jobs = 1..jobCounter
        /\ \A j \in 1..jobCounter : StatusResponse(ParamOf(j)) # NotFoundResponse)
  /\ [][/\ DOMAIN jobs \subseteq DOMAIN jobs'
        /\ (res'.route = "process" /\ res'.status = 400)
             => jobCounter' = jobCounter /\ jobs' = jobs
        /\ (res'.route = "process" /\ res'.status = 200)
             => /\ jobCounter' = jobCounter + 1
                /\ DOMAIN jobs' = DOMAIN jobs \cup {jobCounter + 1}
        /\ res'.route # "process" => jobCounter' = jobCounter]_vars

\* A request was rejected after a job had been created: the counter still
\* names the one job, and a poll for it shows it.
C37_Witness ==
  /\ res.route = "process" /\ res.status = 400
  /\ jobCounter = 1
  /\ DOMAIN jobs = {1}
  /\ StatusResponse(ParamOf(1)).body = jobs[1]

\* C38: a job record has an error exactly when its status is failed, and a
\* status poll shows it so: active and completed jobs carry no error.
C38_ErrorIffFailed ==
  \A j \in DOMAIN jobs :
    LET body == StatusResponse(ParamOf(j)).body
    IN /\ ("error" \in DOMAIN jobs[j]) <=> (jobs[j].status = "failed")
       /\ ("error" \in DOMAIN body) <=> (body.status = "failed")

\* A job failed by the exception of fs.statSync next to a completed job and
\* its results.
C38_Witness ==
  \E j, k \in DOMAIN jobs :
    /\ jobs[j].status = "failed"
    /\ jobs[j].error = "ENOENT"
    /\ jobs[k].status = "completed"
    /\ Len(ResultList(jobs[k])) = 2
    /\ "error" \notin DOMAIN jobs[k]

====
